---- MODULE Spec2Model ----
(***************************************************************************)
(* Model of src/clean_duplicates.py: the Google Drive duplicate cleaner.   *)
(* One run of main() is a walk of pc from "authenticate" to "exit"; the    *)
(* Drive folder is `store`, and every files().list / files().delete call   *)
(* that reaches the Drive service is appended to `gateway_log`.            *)
(***************************************************************************)
EXTENDS Integers, Sequences, FiniteSets, TLC

(* ---------------------------- bounds ----------------------------------- *)
MaxFiles == 4        \* files in the folder (specification Spec)
NumNames == 2        \* distinct file names (specification Spec)
MaxDigit == 1        \* modifiedTime characters are 1..MaxDigit (specification Spec)
MaxGroup == 3        \* files in the folder (specification SpecPlan)
PlanDigit == 2       \* modifiedTime characters are 1..PlanDigit (specification SpecPlan)
MaxTimeLen == 1      \* length of a modifiedTime string (specification SpecPlan)
PageSize == 2        \* files per files().list page (pageSize=1000 in the code)

(* ---------------------------- values ----------------------------------- *)
None == {}                       \* Python None / a missing dict key
Some(x) == {x}
The(o) == CHOOSE x \in o : TRUE

Names == 1..NumNames
TimeStrings(digits, maxLen) == UNION { [1..l -> 1..digits] : l \in 1..maxLen }
ModifiedTimes(digits, maxLen) ==
    {None} \cup { Some(t) : t \in TimeStrings(digits, maxLen) }

\* The code only compares names for equality, so a listing is taken up to
\* renaming: the k-th distinct name met in fetch order is name k.
FirstSeenNaming(f) ==
    \A i \in DOMAIN f :
        \/ f[i][1] = 1
        \/ \E j \in 1..(i-1) : f[j][1] >= f[i][1] - 1

\* The folder listing described by f: ids are unique, names are not.
Listing(f) ==
    [i \in DOMAIN f |-> [id |-> i, name |-> f[i][1], modifiedTime |-> f[i][2]]]

VARIABLES pc, run, args_delete, auth_returned, exit_status, store,
          results, page_token, files, duplicates, gi, fi, keep, to_delete,
          total_to_delete, summary, gateway_log

vars == <<pc, run, args_delete, auth_returned, exit_status, store,
          results, page_token, files, duplicates, gi, fi, keep, to_delete,
          total_to_delete, summary, gateway_log>>

(* ------------------------- pure functions ------------------------------ *)
\* Python str comparison a < b: lexicographic, a proper prefix is smaller.
StrLess(a, b) ==
    \E k \in 1..(Len(b)) :
        /\ \A j \in 1..(k-1) : j <= Len(a) /\ a[j] = b[j]
        /\ k - 1 <= Len(a)
        /\ (k = Len(a) + 1 \/ (k <= Len(a) /\ a[k] < b[k]))

\* key=lambda x: x.get('modifiedTime', '')
SortKey(x) == IF x.modifiedTime = None THEN <<>> ELSE The(x.modifiedTime)

Reverse(s) == [i \in 1..Len(s) |-> s[Len(s) + 1 - i]]

\* Stable insertion of x into an ascending list: after every element whose
\* key is not greater than x's.
InsertAsc(sorted, x) ==
    LET n == Cardinality({ i \in 1..Len(sorted) : ~StrLess(SortKey(x), SortKey(sorted[i])) })
    IN  SubSeq(sorted, 1, n) \o <<x>> \o SubSeq(sorted, n + 1, Len(sorted))

RECURSIVE StableSortAsc(_)
StableSortAsc(s) ==
    IF s = <<>> THEN <<>>
    ELSE InsertAsc(StableSortAsc(SubSeq(s, 1, Len(s) - 1)), s[Len(s)])

\* sorted(xs, key=...)[::-1]: descending, but equal keys come out last-seen first.
SortReversedUnstable(s) == Reverse(StableSortAsc(s))

\* list.sort(key=..., reverse=True): the list is reversed, sorted ascending
\* by a stable sort, and reversed again, so equal keys keep their order.
SortNewestFirst(s) == Reverse(StableSortAsc(Reverse(s)))

\* duplicates[name].append(file) on an insertion-ordered dict.
DictAppend(d, file) ==
    IF \E k \in 1..Len(d) : d[k].name = file.name
    THEN [k \in 1..Len(d) |->
            IF d[k].name = file.name
            THEN [d[k] EXCEPT !.files_list = Append(@, file)]
            ELSE d[k]]
    ELSE Append(d, [name |-> file.name, files_list |-> <<file>>])

RECURSIVE GroupByName(_, _)
GroupByName(fs, d) ==
    IF fs = <<>> THEN d ELSE GroupByName(Tail(fs), DictAppend(d, Head(fs)))

MultipleFiles(e) == Len(e.files_list) > 1
AnyFiles(e) == Len(e.files_list) > 0

find_duplicates_unfiltered(fs) == SelectSeq(GroupByName(fs, <<>>), AnyFiles)

find_duplicates(fs) == SelectSeq(GroupByName(fs, <<>>), MultipleFiles)

\* authenticate(): False only when no usable token exists and
\* credentials.json is missing.
authenticate(token_exists, valid, refreshable, has_credentials_json) ==
    IF token_exists /\ valid THEN TRUE
    ELSE IF token_exists /\ refreshable THEN TRUE
    ELSE has_credentials_json

RemoveId(s, id) == SelectSeq(s, LAMBDA f : f.id # id)

(* ------------------------------ Init ----------------------------------- *)
InitWith(maxN, names, times, flags) ==
    /\ pc = "authenticate"
    /\ run = 1
    /\ args_delete \in flags
    /\ auth_returned = None
    /\ exit_status = None
    /\ \E n \in 0..maxN :
          \E f \in [1..n -> names \X times] :
              FirstSeenNaming(f) /\ store = Listing(f)
    /\ results = <<>>
    /\ page_token = None
    /\ files = <<>>
    /\ duplicates = <<>>
    /\ gi = 0
    /\ fi = 0
    /\ keep = None
    /\ to_delete = <<>>
    /\ total_to_delete = 0
    /\ summary = None
    /\ gateway_log = <<>>

Init == InitWith(MaxFiles, Names, ModifiedTimes(MaxDigit, 1), BOOLEAN)

\* A dry run (no --delete) over a folder whose files all bear the same name.
InitPlan == InitWith(MaxGroup, {1}, ModifiedTimes(PlanDigit, MaxTimeLen), {FALSE})

(* --------------------------- main() ------------------------------------ *)
dry_run == ~args_delete          \* cleanup_duplicates(..., dry_run=not args.delete)

Min(a, b) == IF a < b THEN a ELSE b

\* main() never checks what authenticate() returned.
AuthenticateUnchecked ==
    /\ pc = "authenticate"
    /\ \E token_exists, valid, refreshable, has_credentials_json \in BOOLEAN :
          auth_returned' = Some(authenticate(token_exists, valid, refreshable,
                                             has_credentials_json))
    /\ pc' = "confirm"
    /\ UNCHANGED <<run, args_delete, exit_status, store, results, page_token, files,
                   duplicates, gi, fi, keep, to_delete, total_to_delete, summary,
                   gateway_log>>

\* cleaner.authenticate(); on False main() prints and returns.
Authenticate ==
    /\ pc = "authenticate"
    /\ \E token_exists, valid, refreshable, has_credentials_json \in BOOLEAN :
          LET ok == authenticate(token_exists, valid, refreshable, has_credentials_json)
          IN  /\ auth_returned' = Some(ok)
              /\ IF ok
                 THEN pc' = "confirm" /\ exit_status' = exit_status
                 ELSE pc' = "exit" /\ exit_status' = Some(0)
    /\ UNCHANGED <<run, args_delete, store, results, page_token, files, duplicates,
                   gi, fi, keep, to_delete, total_to_delete, summary, gateway_log>>

\* The confirmation prompt of --delete; a dry run goes straight on.
Confirm ==
    /\ pc = "confirm"
    /\ \E confirm \in {"YES", "no"} :
          IF args_delete /\ confirm # "YES"
          THEN pc' = "exit" /\ exit_status' = Some(0)
          ELSE pc' = "list" /\ exit_status' = exit_status
    /\ UNCHANGED <<run, args_delete, auth_returned, store, results, page_token, files,
                   duplicates, gi, fi, keep, to_delete, total_to_delete, summary,
                   gateway_log>>

(* --------------------- list_files_in_folder() -------------------------- *)
Offset == IF page_token = None THEN 0 ELSE The(page_token)

\* except HttpError: return the pages fetched so far.
ListPageErrorPartial ==
    /\ pc = "list"
    /\ gateway_log' = Append(gateway_log, [run |-> run, op |-> "list", arg |-> Offset, ok |-> FALSE])
    /\ files' = results
    /\ results' = <<>>
    /\ page_token' = None
    /\ pc' = "find"
    /\ UNCHANGED <<run, args_delete, auth_returned, exit_status, store, duplicates,
                   gi, fi, keep, to_delete, total_to_delete, summary>>

\* One files().list(...).execute() that answers with a page.
ListPage ==
    /\ pc = "list"
    /\ gateway_log' = Append(gateway_log, [run |-> run, op |-> "list", arg |-> Offset, ok |-> TRUE])
    /\ LET page == SubSeq(store, Offset + 1, Min(Offset + PageSize, Len(store)))
           next == IF Offset + PageSize < Len(store) THEN Some(Offset + PageSize) ELSE None
       IN  IF next = None
           THEN /\ files' = results \o page
                /\ results' = <<>>
                /\ page_token' = None
                /\ pc' = "find"
           ELSE /\ results' = results \o page
                /\ page_token' = next
                /\ pc' = "list"
                /\ files' = files
    /\ UNCHANGED <<run, args_delete, auth_returned, exit_status, store, duplicates,
                   gi, fi, keep, to_delete, total_to_delete, summary>>

\* One files().list(...).execute() that raises HttpError: return [].
ListPageError ==
    /\ pc = "list"
    /\ gateway_log' = Append(gateway_log, [run |-> run, op |-> "list", arg |-> Offset, ok |-> FALSE])
    /\ files' = <<>>
    /\ results' = <<>>
    /\ page_token' = None
    /\ pc' = "find"
    /\ UNCHANGED <<run, args_delete, auth_returned, exit_status, store, duplicates,
                   gi, fi, keep, to_delete, total_to_delete, summary>>

(* ----------------------- cleanup_duplicates() -------------------------- *)
\* duplicates = self.find_duplicates(files); return when there are none.
FindDuplicates ==
    /\ pc = "find"
    /\ duplicates' = find_duplicates(files)
    /\ IF duplicates' = <<>>
       THEN pc' = "exit" /\ exit_status' = Some(0) /\ gi' = gi
       ELSE pc' = "for_group" /\ exit_status' = exit_status /\ gi' = 1
    /\ UNCHANGED <<run, args_delete, auth_returned, store, results, page_token, files,
                   fi, keep, to_delete, total_to_delete, summary, gateway_log>>

\* to_delete = files_list[2:]
PlanSkipSecond(files_list) ==
    [keep |-> files_list[1], to_delete |-> SubSeq(files_list, 3, Len(files_list))]

\* to_delete = files_list
PlanDeleteAll(files_list) ==
    [keep |-> files_list[1], to_delete |-> files_list]

\* keep = files_list[0]; to_delete = files_list[1:]
Plan(files_list) ==
    [keep |-> files_list[1], to_delete |-> Tail(files_list)]

\* Top of `for name, files_list in duplicates.items()`: sort the group in
\* place and split it into keep and to_delete.
SortGroup ==
    /\ pc = "for_group"
    /\ gi <= Len(duplicates)
    /\ LET sorted == SortNewestFirst(duplicates[gi].files_list)
       IN  /\ duplicates' = [duplicates EXCEPT ![gi].files_list = sorted]
           /\ keep' = Some(Plan(sorted).keep)
           /\ to_delete' = Plan(sorted).to_delete
           /\ IF Plan(sorted).to_delete = <<>>
              THEN /\ fi' = 0
                   /\ gi' = gi + 1
                   /\ pc' = IF gi = Len(duplicates) THEN "summary" ELSE "for_group"
              ELSE /\ fi' = 1
                   /\ gi' = gi
                   /\ pc' = "for_file"
    /\ UNCHANGED <<run, args_delete, auth_returned, exit_status, store, results,
                   page_token, files, total_to_delete, summary, gateway_log>>

\* End of one iteration of `for file in to_delete`.
NextFile ==
    IF fi < Len(to_delete)
    THEN fi' = fi + 1 /\ gi' = gi /\ pc' = "for_file"
    ELSE fi' = 0 /\ gi' = gi + 1
         /\ pc' = IF gi = Len(duplicates) THEN "summary" ELSE "for_group"

\* A dry run that calls delete_file all the same.
DryRunDeletes ==
    /\ pc = "for_file"
    /\ dry_run
    /\ total_to_delete' = total_to_delete + 1
    /\ gateway_log' = Append(gateway_log,
                             [run |-> run, op |-> "delete", arg |-> to_delete[fi].id, ok |-> TRUE])
    /\ store' = RemoveId(store, to_delete[fi].id)
    /\ NextFile
    /\ UNCHANGED <<run, args_delete, auth_returned, exit_status, results, page_token,
                   files, duplicates, keep, to_delete, summary>>

\* if dry_run: print "[DRY RUN] Would delete ..."
DryRunReport ==
    /\ pc = "for_file"
    /\ dry_run
    /\ total_to_delete' = total_to_delete + 1
    /\ NextFile
    /\ UNCHANGED <<run, args_delete, auth_returned, exit_status, store, results,
                   page_token, files, duplicates, keep, to_delete, summary, gateway_log>>

\* delete_file(): files().delete(fileId).execute() succeeds.
DeleteFileOk ==
    /\ pc = "for_file"
    /\ ~dry_run
    /\ total_to_delete' = total_to_delete + 1
    /\ gateway_log' = Append(gateway_log,
                             [run |-> run, op |-> "delete", arg |-> to_delete[fi].id, ok |-> TRUE])
    /\ store' = RemoveId(store, to_delete[fi].id)
    /\ NextFile
    /\ UNCHANGED <<run, args_delete, auth_returned, exit_status, results, page_token,
                   files, duplicates, keep, to_delete, summary>>

\* The HttpError of a delete is not caught: the run stops there.
DeleteFileErrorAborts ==
    /\ pc = "for_file"
    /\ ~dry_run
    /\ total_to_delete' = total_to_delete + 1
    /\ gateway_log' = Append(gateway_log,
                             [run |-> run, op |-> "delete", arg |-> to_delete[fi].id, ok |-> FALSE])
    /\ pc' = "exit"
    /\ exit_status' = Some(1)
    /\ UNCHANGED <<run, args_delete, auth_returned, store, results, page_token, files,
                   duplicates, gi, fi, keep, to_delete, summary>>

\* delete_file(): files().delete(fileId).execute() raises HttpError; False
\* is returned and cleanup_duplicates ignores it.
DeleteFileError ==
    /\ pc = "for_file"
    /\ ~dry_run
    /\ total_to_delete' = total_to_delete + 1
    /\ gateway_log' = Append(gateway_log,
                             [run |-> run, op |-> "delete", arg |-> to_delete[fi].id, ok |-> FALSE])
    /\ NextFile
    /\ UNCHANGED <<run, args_delete, auth_returned, exit_status, store, results,
                   page_token, files, duplicates, keep, to_delete, summary>>

\* The SUMMARY block, then main() prints "Operation completed!" and returns.
Summary ==
    /\ pc = "summary"
    /\ summary' = Some([scanned |-> Len(files),
                        with_duplicates |-> Len(duplicates),
                        to_delete |-> total_to_delete,
                        removed |-> IF dry_run THEN None ELSE Some(total_to_delete)])
    /\ pc' = "exit"
    /\ exit_status' = Some(0)
    /\ UNCHANGED <<run, args_delete, auth_returned, store, results, page_token, files,
                   duplicates, gi, fi, keep, to_delete, total_to_delete, gateway_log>>

\* The script is started a second time with --delete and confirmed, against
\* the folder the first --delete run left behind.
Rerun ==
    /\ pc = "exit"
    /\ run = 1
    /\ args_delete
    /\ \E k \in 1..Len(gateway_log) : gateway_log[k].op = "list"
    /\ run' = 2
    /\ pc' = "list"
    /\ exit_status' = None
    /\ results' = <<>>
    /\ page_token' = None
    /\ files' = <<>>
    /\ duplicates' = <<>>
    /\ gi' = 0
    /\ fi' = 0
    /\ keep' = None
    /\ to_delete' = <<>>
    /\ total_to_delete' = 0
    /\ summary' = None
    /\ UNCHANGED <<args_delete, auth_returned, store, gateway_log>>

Next ==
    \/ Authenticate
    \/ Confirm
    \/ ListPage
    \/ ListPageError
    \/ FindDuplicates
    \/ SortGroup
    \/ DryRunReport
    \/ DeleteFileOk
    \/ DeleteFileError
    \/ Summary
    \/ Rerun

Spec == Init /\ [][Next]_vars

\* The steps of a dry run of main().
NextPlan ==
    \/ Authenticate
    \/ Confirm
    \/ ListPage
    \/ ListPageError
    \/ FindDuplicates
    \/ SortGroup
    \/ DryRunReport
    \/ Summary

SpecPlan == InitPlan /\ [][NextPlan]_vars

(* ------------------- vocabulary of the properties ---------------------- *)
\* Lexicographic order on strings, by first difference.
RECURSIVE LexLeq(_, _)
LexLeq(a, b) ==
    \/ Len(a) = 0
    \/ /\ Len(b) > 0
       /\ \/ a[1] < b[1]
          \/ a[1] = b[1] /\ LexLeq(SubSeq(a, 2, Len(a)), SubSeq(b, 2, Len(b)))

\* Order on modifiedTime fields: an absent one is below every present one.
TimeLeq(a, b) ==
    \/ a = None
    \/ b # None /\ LexLeq(The(a), The(b))

Range(s) == { s[i] : i \in 1..Len(s) }
Members(name) == { i \in 1..Len(files) : files[i].name = name }
Count(name) == Cardinality(Members(name))
FileOfId(id) == CHOOSE f \in Range(files) : f.id = id
FirstIndex(name) == CHOOSE i \in Members(name) : \A j \in Members(name) : i <= j

\* Calls of the current run that reached the gateway, in call order.
IsDeleteNow(e) == e.op = "delete" /\ e.run = run
IsListNow(e) == e.op = "list" /\ e.run = run
DeleteCalls == SelectSeq(gateway_log, IsDeleteNow)
ListCalls == SelectSeq(gateway_log, IsListNow)
IsOkDeleteNow(e) == IsDeleteNow(e) /\ e.ok
OkDeletes == SelectSeq(gateway_log, IsOkDeleteNow)
IsFirstRun(e) == e.run = 1
FirstRunCalls == SelectSeq(gateway_log, IsFirstRun)
FirstRunClean == \A k \in 1..Len(FirstRunCalls) : FirstRunCalls[k].ok

(* ------------------------------- C1 ------------------------------------ *)
\* C1: in every duplicate group the kept record has the lexicographically
\* greatest modifiedTime of the group (absent below every present one), and
\* among the members sharing that greatest modifiedTime it is the one that
\* came first in the fetched listing.
KeepIsNewestFirstSeen ==
    keep # None =>
        LET k == The(keep)
        IN  \E p \in Members(k.name) :
                /\ files[p] = k
                /\ \A i \in Members(k.name) :
                      /\ TimeLeq(files[i].modifiedTime, k.modifiedTime)
                      /\ files[i].modifiedTime = k.modifiedTime => p <= i

\* A group of three whose greatest modifiedTime is shared by two members,
\* the third having none: the first-fetched of the two is kept.
WitnessKeepTie ==
    /\ keep # None
    /\ Len(files) = 3
    /\ \E p, q, r \in 1..3 :
          /\ p < q
          /\ files[p] = The(keep)
          /\ files[q].modifiedTime = files[p].modifiedTime
          /\ files[p].modifiedTime # None
          /\ files[r].modifiedTime = None

(* ------------------------------- C2 ------------------------------------ *)
\* C2: a dry run never invokes the gateway's delete operation, and once the
\* folder has been listed the stored files are exactly the listed ones.
DryRunNeverDeletes ==
    dry_run =>
        /\ \A k \in 1..Len(gateway_log) : gateway_log[k].op # "delete"
        /\ (pc \in {"for_group", "for_file", "summary", "exit"}
              /\ ListCalls # <<>>
              /\ \A k \in 1..Len(ListCalls) : ListCalls[k].ok) => store = files

\* A finished dry run that reported at least two would-be deletions.
WitnessDryRun ==
    /\ dry_run
    /\ pc = "exit"
    /\ summary # None
    /\ The(summary).to_delete >= 2

(* ------------------------------- C3 ------------------------------------ *)
\* C3: after a non-dry run the summary reports as removed exactly the
\* deletions that succeeded; a failed deletion is not counted as removed.
SummaryCountsSucceededOnly ==
    (summary # None /\ ~dry_run) =>
        The(The(summary).removed) = Len(OkDeletes)

(* ------------------------------- C4 ------------------------------------ *)
\* C4: when a non-dry run has ended, delete was invoked exactly once for
\* each non-kept member of each duplicate group and for no other record,
\* group after group, newest first inside a group, whether or not some of
\* the calls failed.
DeleteOncePerNonKept ==
    (pc = "exit" /\ ~dry_run) =>
        LET D == DeleteCalls
            F(k) == FileOfId(D[k].arg)
        IN  /\ \A a, b \in 1..Len(D) : D[a].arg = D[b].arg => a = b
            /\ \A k \in 1..Len(D) : \E f \in Range(files) : f.id = D[k].arg
            /\ \A n \in Names :
                  Cardinality({ k \in 1..Len(D) : F(k).name = n }) =
                      (IF Count(n) >= 2 THEN Count(n) - 1 ELSE 0)
            /\ \A a, b \in 1..Len(D) :
                  a < b =>
                      IF F(a).name = F(b).name
                      THEN TimeLeq(F(b).modifiedTime, F(a).modifiedTime)
                      ELSE FirstIndex(F(a).name) < FirstIndex(F(b).name)

\* A finished non-dry run over a group of four: the first of its three
\* deletes failed and the two after it were still attempted.
WitnessDeleteAfterFailure ==
    /\ pc = "exit"
    /\ ~dry_run
    /\ Len(DeleteCalls) = 3
    /\ ~DeleteCalls[1].ok
    /\ DeleteCalls[3].ok

PlanPartitionsGroup ==
    /\ keep # None =>
          LET k == The(keep)
              group == { files[i] : i \in Members(k.name) }
          IN  /\ {k} \cup Range(to_delete) = group
              /\ k \notin Range(to_delete)
              /\ Len(to_delete) = Cardinality(group) - 1
    /\ \A i \in 1..Len(files) : \E j \in 1..Len(store) : store[j].name = files[i].name

\* A finished non-dry run that removed two files of a group.
WitnessPlanExecuted ==
    /\ pc = "exit"
    /\ ~dry_run
    /\ keep # None
    /\ Len(to_delete) >= 2
    /\ Len(OkDeletes) >= 2

(* ------------------------------- C7 ------------------------------------ *)
\* C7: find_duplicates returns exactly the names borne by two or more
\* records, each once, mapped to all the records of that name in fetch order.
IsDuplicatesOf(d, fs) ==
    /\ \A a, b \in 1..Len(d) : d[a].name = d[b].name => a = b
    /\ { d[a].name : a \in 1..Len(d) } =
          { n \in Names : Cardinality({ i \in 1..Len(fs) : fs[i].name = n }) >= 2 }
    /\ \A a \in 1..Len(d) :
          d[a].files_list = SelectSeq(fs, LAMBDA f : f.name = d[a].name)

FindDuplicatesExact ==
    [][pc = "find" => IsDuplicatesOf(duplicates', files)]_vars

\* find_duplicates has just returned one group whose members were not
\* adjacent in the listing, leaving out a record with a unique name.
WitnessFindDuplicates ==
    /\ pc = "for_group"
    /\ gi = 1
    /\ Len(duplicates) = 1
    /\ Len(files) = 3
    /\ files[1].name = files[3].name
    /\ files[2].name # files[1].name

(* ------------------------------- C8 ------------------------------------ *)
\* C8: the exit status is non-zero if and only if authentication failed.
ExitNonZeroIffAuthFailed ==
    exit_status # None =>
        ((The(exit_status) # 0) <=> (auth_returned = Some(FALSE)))

(* ------------------------------- C9 ------------------------------------ *)
\* C9: no files().list or files().delete call occurs unless authenticate
\* has returned True; after a failed authentication the run is over.
NoGatewayCallWithoutAuth ==
    /\ gateway_log # <<>> => auth_returned = Some(TRUE)
    /\ pc \notin {"authenticate", "exit"} => auth_returned = Some(TRUE)

\* Authentication failed on a folder that holds duplicates.
WitnessAuthFailed ==
    /\ auth_returned = Some(FALSE)
    /\ pc = "exit"
    /\ args_delete
    /\ Len(store) >= 2
    /\ store[1].name = store[2].name

(* ------------------------------- C10 ----------------------------------- *)
\* C10: once a list call of the run has failed, the listing is empty (the
\* pages already fetched are dropped), no duplicate is found and no delete
\* is invoked.
ListErrorYieldsEmpty ==
    (\E k \in 1..Len(ListCalls) : ~ListCalls[k].ok) =>
        /\ files = <<>>
        /\ duplicates = <<>>
        /\ DeleteCalls = <<>>
        /\ pc \in {"find", "exit"}

\* A --delete run ended after its second list call failed, the first page
\* holding two files of the same name.
WitnessListErrorLaterPage ==
    /\ args_delete
    /\ run = 1
    /\ pc = "exit"
    /\ Len(ListCalls) = 2
    /\ ListCalls[1].ok
    /\ ~ListCalls[2].ok
    /\ store[1].name = store[2].name

====
